---- MODULE Spec2Model ----
(***************************************************************************)
(* Model of the QLux code reviewer GitHub Action: the review run of        *)
(* src/main.ts (and its deduplicating revision), the GitHubService calls   *)
(* it makes, and the severity helpers of utils.ts / config.ts / ai.ts.     *)
(***************************************************************************)
EXTENDS Integers, Sequences, FiniteSets, TLC

NULL == "null"

(***************************************************************************)
(* Strings are sequences of one-character strings so that toLowerCase and  *)
(* trim are computed, not assumed.                                         *)
(***************************************************************************)
Low == <<"l", "o", "w">>
Medium == <<"m", "e", "d", "i", "u", "m">>
High == <<"h", "i", "g", "h">>
Critical == <<"c", "r", "i", "t", "i", "c", "a", "l">>

Tiers == {Low, Medium, High, Critical}

\* String.prototype.toLowerCase, on the characters the inputs use
LowerChar(c) ==
  CASE c = "L" -> "l" [] c = "O" -> "o" [] c = "W" -> "w"
    [] c = "M" -> "m" [] c = "E" -> "e" [] c = "D" -> "d"
    [] c = "I" -> "i" [] c = "U" -> "u" [] c = "H" -> "h"
    [] c = "G" -> "g" [] c = "C" -> "c" [] c = "R" -> "r"
    [] c = "T" -> "t" [] c = "A" -> "a"
    [] OTHER -> c

toLowerCase(s) == [i \in 1..Len(s) |-> LowerChar(s[i])]

IsWhiteSpace(c) == c \in {" ", "\t", "\n"}

RECURSIVE trimStart(_)
trimStart(s) ==
  IF s # <<>> /\ IsWhiteSpace(Head(s)) THEN trimStart(Tail(s)) ELSE s

RECURSIVE trimEnd(_)
trimEnd(s) ==
  IF s # <<>> /\ IsWhiteSpace(s[Len(s)])
  THEN trimEnd(SubSeq(s, 1, Len(s) - 1))
  ELSE s

\* String.prototype.trim
trim(s) == trimEnd(trimStart(s))

\* own properties of the `levels` object literal of getSeverityLevel
levels == (Low :> 0) @@ (Medium :> 1) @@ (High :> 2) @@ (Critical :> 3)

\* keys every object literal inherits from Object.prototype; only the ones
\* spelled in lower case can equal a lower-cased string
ConstructorKey == <<"c", "o", "n", "s", "t", "r", "u", "c", "t", "o", "r">>
ProtoKey == <<"_", "_", "p", "r", "o", "t", "o", "_", "_">>
InheritedKeys == {ConstructorKey, ProtoKey}

\* JavaScript values a property read of `levels` can yield: a number, or the
\* function / object found on the prototype chain
Num(n) == [type |-> "number", value |-> n]
InheritedValue == [type |-> "object", value |-> 0]

\* getSeverityLevel with the ranks of medium and high exchanged
getSeverityLevel_SwappedRanks(severity) ==
  LET normalized == trim(toLowerCase(severity))
      swapped == (Low :> 0) @@ (Medium :> 2) @@ (High :> 1) @@ (Critical :> 3)
  IN IF normalized \in DOMAIN swapped THEN Num(swapped[normalized])
     ELSE IF normalized \in InheritedKeys THEN InheritedValue
     ELSE Num(0)

\* levels[normalized] ?? 0
getSeverityLevel(severity) ==
  LET normalized == trim(toLowerCase(severity)) IN
  IF normalized \in DOMAIN levels THEN Num(levels[normalized])
  ELSE IF normalized \in InheritedKeys THEN InheritedValue
  ELSE Num(0)

\* a >= b of JavaScript: false when an operand converts to NaN
GreaterOrEqual(a, b) ==
  a.type = "number" /\ b.type = "number" /\ a.value >= b.value

\* normalizeSeverity without the trim
normalizeSeverity_NoTrim(severity) ==
  LET lower == toLowerCase(severity) IN
  IF lower \in {Low, Medium, High, Critical} THEN lower ELSE Low

\* utils.ts
normalizeSeverity(severity) ==
  LET lower == trim(toLowerCase(severity)) IN
  IF lower \in {Low, Medium, High, Critical} THEN lower ELSE Low

\* AIService (services/ai.ts), private copy
AI_normalizeSeverity(severity) ==
  LET lower == trim(toLowerCase(severity)) IN
  IF lower \in {Low, Medium, High, Critical} THEN lower ELSE Low

\* config.ts, module-private copy
Config_normalizeSeverity(severity) ==
  LET lower == trim(toLowerCase(severity)) IN
  IF lower \in {Low, Medium, High, Critical} THEN lower ELSE Low


(***************************************************************************)
(* Bounds of the model                                                     *)
(***************************************************************************)
\* most items in one AI response: inline comments plus delete_comment and
\* minimize_comment requests
MaxItems == 2
\* most white-space characters around a severity string
MaxPad == 1

(***************************************************************************)
(* The pull request: its diff and its comments                             *)
(***************************************************************************)
BotLogin == "github-actions[bot]"
UserLogin == "alice"

\* comment bodies, reduced to what the code tests them for
\*   header: contains "# PR Summary" heading   note: contains "> [!NOTE]"
\*   old:    contains "**AI Review Summary**"  alert: trimmed, starts with "> [!"
Body(header, note, old, alert) ==
  [header |-> header, note |-> note, old |-> old, alert |-> alert]
PlainText == Body(FALSE, FALSE, FALSE, FALSE)
AlertText == Body(FALSE, FALSE, FALSE, TRUE)

\* a parsed unified diff: files, their chunks, the changes of each chunk
DiffCode ==
  << [to |-> "a.ts",
      chunks |-> << [newStart |-> 1,
                     changes |-> <<"add", "normal", "del", "add">>] >>],
     [to |-> "pkg.lock",
      chunks |-> << [newStart |-> 1, changes |-> <<"add">>] >>] >>
DiffLockOnly ==
  << [to |-> "pkg.lock",
      chunks |-> << [newStart |-> 1, changes |-> <<"add", "add">>] >>] >>

\* new-file line number of change i of a chunk (ln of an added line, ln2 of a
\* context line): the chunk's new start plus the context/added lines before it
NewLineNumber(chunk, i) ==
  chunk.newStart
    + Cardinality({j \in 1..(i - 1) : chunk.changes[j] # "del"})

\* (file, line) of every line of the given kinds in a diff
ChunkAnchors(file, chunk, kinds) ==
  { <<file, NewLineNumber(chunk, i)>> :
      i \in {j \in DOMAIN chunk.changes : chunk.changes[j] \in kinds} }
FileAnchors(f, kinds) ==
  UNION {ChunkAnchors(f.to, f.chunks[h], kinds) : h \in DOMAIN f.chunks}
AnchorsOfKind(d, kinds) ==
  UNION {FileAnchors(d[f], kinds) : f \in DOMAIN d}

AddedAnchors(d) == AnchorsOfKind(d, {"add"})
NewSideAnchors(d) == AnchorsOfKind(d, {"add", "normal"})

IssueComment(id, login, body) ==
  [id |-> id, login |-> login, type |-> "issue", body |-> body,
   path |-> NULL, line |-> 0, position |-> FALSE, isMinimized |-> FALSE,
   inReplyTo |-> 0]

\* a review comment; position = FALSE is the API's `position: null`, for which
\* the API reports `line: null` and keeps the anchor in original_line
\* inReplyTo is the API's in_reply_to_id (0 when absent)
ReviewComment(id, login, body, path, line, position, inReplyTo) ==
  [id |-> id, login |-> login, type |-> "review", body |-> body,
   path |-> path, line |-> line, position |-> position, isMinimized |-> FALSE,
   inReplyTo |-> inReplyTo]

SummaryBody == Body(TRUE, TRUE, FALSE, FALSE)

\* comments of a pull request that was reviewed before and then changed
ReviewedBefore ==
  { IssueComment(1, BotLogin, SummaryBody),
    ReviewComment(2, BotLogin, AlertText, "a.ts", 1, TRUE, 0),
    ReviewComment(3, UserLogin, PlainText, "a.ts", 2, TRUE, 0),
    ReviewComment(4, BotLogin, AlertText, "a.ts", 3, FALSE, 0),
    ReviewComment(5, UserLogin, PlainText, "a.ts", 1, TRUE, 2) }

\* a user's review comment on a pull request that changes a lock file only
LockComments ==
  { ReviewComment(1, UserLogin, PlainText, "pkg.lock", 1, TRUE, 0) }

PullRequests ==
  { [diff |-> DiffCode, comments |-> ReviewedBefore],
    [diff |-> DiffCode, comments |-> {}],
    [diff |-> DiffLockOnly, comments |-> {}],
    [diff |-> DiffLockOnly, comments |-> LockComments] }

RECURSIVE SortById(_)
SortById(S) ==
  IF S = {} THEN <<>>
  ELSE LET m == CHOOSE c \in S : \A d \in S : c.id <= d.id
       IN <<m>> \o SortById(S \ {m})

Range(seq) == {seq[i] : i \in DOMAIN seq}

\* some enumeration of a finite set
RECURSIVE SetToSeqOf(_)
SetToSeqOf(S) ==
  IF S = {} THEN <<>>
  ELSE LET x == CHOOSE y \in S : TRUE IN <<x>> \o SetToSeqOf(S \ {x})


MaxId(cs) == IF cs = {} THEN 0 ELSE CHOOSE n \in {c.id : c \in cs} :
                                      \A c \in cs : c.id <= n

(***************************************************************************)
(* GitHubService (services/github.ts)                                      *)
(***************************************************************************)
\* formatSummary: an alert-led summary is returned as is, any other gets the
\* "# PR Summary" heading and a NOTE alert in front of its quoted lines
formatSummary(summary) ==
  IF summary.alert THEN summary
  ELSE Body(TRUE, TRUE, summary.old, FALSE)

\* formatInlineComment: an alert-led body is returned as is, any other is
\* quoted under the alert of its severity (CAUTION, WARNING, IMPORTANT, TIP)
formatInlineComment(body, severity) ==
  IF body.alert THEN body
  ELSE Body(body.header, body.note, body.old, TRUE)

\* the isSummary test of listBotComments
IsSummaryBody(body) == body.header \/ (body.note /\ body.old)

\* listBotComments: the bot's issue comments, then the bot's review comments
BotIssueEntry(c) ==
  [id |-> c.id, body |-> c.body, path |-> NULL, line |-> 0,
   type |-> "issue", isOutdated |-> FALSE,
   isSummary |-> IsSummaryBody(c.body), isMinimized |-> FALSE]
BotReviewEntry(c) ==
  [id |-> c.id, body |-> c.body, path |-> c.path, line |-> c.line,
   type |-> "review", isOutdated |-> ~c.position,
   isSummary |-> FALSE, isMinimized |-> c.isMinimized]
listBotComments(cs) ==
  LET issue == SortById({c \in cs : c.type = "issue" /\ c.login = BotLogin})
      rev == SortById({c \in cs : c.type = "review" /\ c.login = BotLogin})
  IN [i \in DOMAIN issue |-> BotIssueEntry(issue[i])]
       \o [i \in DOMAIN rev |-> BotReviewEntry(rev[i])]

\* Array.prototype.find by id: whether an entry has that id, and the first
\* such entry
Found(list, id) == \E i \in DOMAIN list : list[i].id = id
Find(list, id) ==
  list[CHOOSE i \in DOMAIN list :
         /\ list[i].id = id
         /\ \A j \in DOMAIN list : list[j].id = id => i <= j]

Call(op, id, ok) ==
  [op |-> op, id |-> id, ok |-> ok, comments |-> <<>>,
   previousSummaries |-> <<>>]

\* octokit.rest.issues.deleteComment / pulls.deleteReviewComment on the
\* platform: removes the comment of that kind and id, whoever wrote it
HasComment(cs, type, id) == \E c \in cs : c.type = type /\ c.id = id
RemoveComment(cs, type, id) == {c \in cs : ~(c.type = type /\ c.id = id)}

\* deleteComment(commentId): one issues.deleteComment call, errors swallowed.
\* The state is [cs, log]; up says whether the platform answers this call
deleteComment(st, id, up) ==
  LET ok == up /\ HasComment(st.cs, "issue", id) IN
  [cs |-> IF ok THEN RemoveComment(st.cs, "issue", id) ELSE st.cs,
   log |-> Append(st.log, Call("issues.deleteComment", id, ok))]

\* deleteReviewComment(commentId): one pulls.deleteReviewComment call,
\* errors swallowed
deleteReviewComment(st, id, up) ==
  LET ok == up /\ HasComment(st.cs, "review", id) IN
  [cs |-> IF ok THEN RemoveComment(st.cs, "review", id) ELSE st.cs,
   log |-> Append(st.log, Call("pulls.deleteReviewComment", id, ok))]

\* minimizeComment(commentId): look the node id up, then the GraphQL
\* minimizeComment mutation; every error is swallowed and gives false.
\* outcome: "ok", "mutationFailed", or "noNodeId" (lookup failed, no mutation)
minimizeComment(st, id, outcome) ==
  LET found == outcome # "noNodeId" /\ \E c \in st.cs : c.id = id
      lookedUp == Append(st.log, Call("pulls.getReviewComment", id, found))
  IN IF ~found THEN [cs |-> st.cs, log |-> lookedUp]
     ELSE
       [cs |-> IF outcome = "ok"
               THEN {IF c.id = id THEN [c EXCEPT !.isMinimized = TRUE] ELSE c :
                       c \in st.cs}
               ELSE st.cs,
        log |-> Append(lookedUp,
                       Call("graphql.minimizeComment", id, outcome = "ok"))]

\* deletePreviousSummaries: a fresh listing, then deleteComment for every
\* entry classified as a summary; ups[i] is the platform's answer to call i
RECURSIVE DeleteSummaries(_, _, _, _)
DeleteSummaries(st, summaries, ups, i) ==
  IF i > Len(summaries) THEN st
  ELSE DeleteSummaries(deleteComment(st, summaries[i].id, ups[i]),
                       summaries, ups, i + 1)

\* deletePreviousSummaries deleting every issue comment of the bot
deletePreviousSummaries_EveryIssueComment(st, ups) ==
  LET allComments == listBotComments(st.cs)
      summaries == SelectSeq(allComments, LAMBDA c : c.type = "issue")
  IN DeleteSummaries(st, summaries, ups, 1)

deletePreviousSummaries(st, ups) ==
  LET allComments == listBotComments(st.cs)
      summaries == SelectSeq(allComments, LAMBDA c : c.isSummary)
  IN DeleteSummaries(st, summaries, ups, 1)

\* minimizeComments: a fresh listing; an id that is not in it is skipped, an
\* issue comment is skipped, a review comment goes to minimizeComment
RECURSIVE MinimizeEach(_, _, _, _, _)
MinimizeEach(st, allComments, commentIds, outcomes, i) ==
  IF i > Len(commentIds) THEN st
  ELSE LET next == IF ~Found(allComments, commentIds[i]) THEN st
                   ELSE IF Find(allComments, commentIds[i]).type = "review"
                        THEN minimizeComment(st, commentIds[i], outcomes[i])
                        ELSE st
       IN MinimizeEach(next, allComments, commentIds, outcomes, i + 1)

\* minimizeComments acting on the outdated comments of the listing only
minimizeComments_OutdatedOnly(st, commentIds, outcomes) ==
  MinimizeEach(st, SelectSeq(listBotComments(st.cs), LAMBDA c : c.isOutdated),
               commentIds, outcomes, 1)

minimizeComments(st, commentIds, outcomes) ==
  MinimizeEach(st, listBotComments(st.cs), commentIds, outcomes, 1)

(***************************************************************************)
(* utils.ts: isFileIgnored, parseReviewComment                             *)
(***************************************************************************)
\* isFileIgnored with no pattern ever matching
isFileIgnored_NothingIgnored(filename, ignorePatterns) == FALSE

\* Minimatch(pattern, {dot: true}).match(filename), on the patterns and
\* file names of the model
MinimatchTable == { <<"*.lock", "pkg.lock">> }

isFileIgnored(filename, ignorePatterns) ==
  \E i \in DOMAIN ignorePatterns :
    <<ignorePatterns[i], filename>> \in MinimatchTable

ReviewCommand == <<"/", "r", "e", "v", "i", "e", "w">>

startsWith(s, prefix) ==
  Len(s) >= Len(prefix) /\ SubSeq(s, 1, Len(prefix)) = prefix

\* parseReviewComment without the trim of the comment
parseReviewComment_NoTrim(comment) ==
  LET trimmed == comment IN
  IF ~startsWith(trimmed, ReviewCommand)
  THEN [isReview |-> FALSE, instructions |-> <<>>]
  ELSE [isReview |-> TRUE,
        instructions |->
          trim(SubSeq(trimmed, Len(ReviewCommand) + 1, Len(trimmed)))]

\* parseReviewComment; instructions = <<>> stands for undefined
parseReviewComment(comment) ==
  LET trimmed == trim(comment) IN
  IF ~startsWith(trimmed, ReviewCommand)
  THEN [isReview |-> FALSE, instructions |-> <<>>]
  ELSE [isReview |-> TRUE,
        instructions |->
          trim(SubSeq(trimmed, Len(ReviewCommand) + 1, Len(trimmed)))]

(***************************************************************************)
(* Inputs of a run                                                         *)
(***************************************************************************)
\* the two revisions of run(): main.ts, and the one that deduplicates against
\* the locations of existing comments
Variants == {"main", "dedup"}

\* values of the min_severity input ("" is the unset input)
MinSeverityInputs ==
  { <<>>, <<"M", "e", "d", "i", "u", "m">>, <<"H", "I", "G", "H", " ">>,
    Critical }

IgnorePatterns == <<"dist/**", "*.lock">>

\* getConfig
getConfig(minSeverityInput, disableInline) ==
  [minSeverity |->
     Config_normalizeSeverity(IF minSeverityInput = <<>> THEN Low
                              ELSE minSeverityInput),
   disableInline |-> disableInline,
   ignorePatterns |-> IgnorePatterns]

\* the action's inputs: every min_severity with inline comments enabled, and
\* the default min_severity with inline comments disabled
Configs ==
  {getConfig(i, FALSE) : i \in MinSeverityInputs} \cup {getConfig(<<>>, TRUE)}

\* bodies of the issue comments that trigger a run
IssueCommentBodies ==
  { ReviewCommand,
    <<" ">> \o ReviewCommand \o <<" ", "g", "o", "\n">>,
    <<"h", "i">> }

\* what the AI may answer: a summary, inline comments, ids to delete/minimize
AISummaries == {PlainText, AlertText}
\* inline comments the AI may propose: on an added line that an active
\* comment may cover (a.ts:1), on one that an outdated comment may cover
\* (a.ts:3), on a context line (a.ts:2), on an ignored file; with a severity
\* that is not a tier name, with one that needs normalizing, and with none
Proposal(file, line, severity) ==
  [file |-> file, line |-> line, body |-> PlainText, severity |-> severity]
Urgent == <<"u", "r", "g", "e", "n", "t">>
HighUpper == <<"H", "I", "G", "H", " ">>
\* the value of a property the AI left out: undefined, which is not a string
Undefined == <<"undefined">>
Proposals ==
  { Proposal("a.ts", 3, Urgent), Proposal("a.ts", 1, HighUpper),
    Proposal("a.ts", 2, HighUpper), Proposal("pkg.lock", 1, HighUpper),
    Proposal("a.ts", 1, Undefined) }
RequestIds == 1..4

SeqsUpTo(S, n) == UNION {[1..k -> S] : k \in 0..n}
ProposalLists == SeqsUpTo(Proposals, MaxItems)
IdLists ==
  { q \in SeqsUpTo(RequestIds, MaxItems) :
      \A i, j \in DOMAIN q : i < j => q[i] < q[j] }

\* github.context of a run: the event name and, from the payload, the
\* action, the body of the issue comment, whether the issue is a pull
\* request, and the id of the review comment
Event(name, action, body, isPullRequest, commentId) ==
  [name |-> name, action |-> action, body |-> body,
   isPullRequest |-> isPullRequest, commentId |-> commentId]

Events(cs) ==
  { Event("pull_request", a, <<>>, FALSE, 0) :
      a \in {"opened", "synchronize", "closed"} }
    \cup { Event("issue_comment", a, b, p, 0) :
             a \in {"created", "deleted"}, b \in IssueCommentBodies,
             p \in BOOLEAN }
    \cup { Event("pull_request_review_comment", a, <<>>, FALSE, c.id) :
             a \in {"created", "edited"}, c \in {d \in cs : d.type = "review"} }
    \cup { Event("push", "", <<>>, FALSE, 0) }

NoReview ==
  [summary |-> PlainText, comments |-> <<>>,
   deleteCommentIds |-> <<>>, minimizeCommentIds |-> <<>>]
NoOutputs ==
  [comments_count |-> 0, minimized_comments_count |-> 0,
   deleted_comments_count |-> 0]

(***************************************************************************)
(* State                                                                   *)
(***************************************************************************)
VARIABLES
  variant,             \* which revision of run() executes
  event,               \* github.context: eventName and payload
  config,              \* getConfig()
  diff,                \* the pull request's diff
  comments,            \* the comments on the pull request (platform state)
  nextId,              \* id the platform gives the next comment
  pc,                  \* position of run()
  customInstructions,  \* run(): customInstructions (<<>> = undefined)
  filesToReview,       \* run(): filesToReview
  existingComments,    \* run(): existingComments
  existingInlineKeys,  \* run() of the deduplicating revision
  review,              \* run(): review, the AIReviewResponse
  calls,               \* every platform / AI call issued so far, in order
  failed,              \* core.setFailed was called
  outputs,             \* core.setOutput values
  before,              \* the comments when the run started
  trigger,             \* reply flow: payload.comment (its id, 0 = none)
  threadComments,      \* reply flow: threadComments
  postedSummaries,     \* ids of the comments createReview posted as summary
  other,               \* a second run() on the same pull request
  sevIn,               \* severity string under test
  sevOut,              \* results of the severity helpers on sevIn
  processed            \* result of processDiff on diff

runVars ==
  <<variant, event, config, diff, comments, nextId, pc, customInstructions,
    filesToReview, existingComments, existingInlineKeys, review, calls,
    failed, outputs, before, trigger, threadComments, postedSummaries,
    other>>
replyVars == <<trigger, threadComments>>
sevVars == <<sevIn, sevOut, processed>>
vars == <<runVars, sevVars>>

NoSev == [utils |-> <<>>, ai |-> <<>>, config |-> <<>>, twice |-> <<>>,
          level |-> Num(0), done |-> {}]

RunInit ==
  /\ variant \in Variants
  /\ config \in Configs
  /\ \E p \in PullRequests :
       /\ diff = p.diff
       /\ comments = p.comments
       /\ before = p.comments
       /\ nextId = MaxId(p.comments) + 1
       /\ event \in Events(p.comments)
  /\ pc = "start"
  /\ customInstructions = <<>>
  /\ filesToReview = <<>>
  /\ existingComments = <<>>
  /\ existingInlineKeys = {}
  /\ review = NoReview
  /\ calls = <<>>
  /\ failed = FALSE
  /\ outputs = NoOutputs
  /\ trigger = 0
  /\ threadComments = <<>>
  /\ postedSummaries = <<>>

NotProcessed == [done |-> FALSE, threw |-> FALSE, lines |-> <<>>]

\* no second run
NoOther ==
  [pc |-> "none", filesToReview |-> <<>>, existingInlineKeys |-> {},
   review |-> NoReview]

Init ==
  /\ RunInit
  /\ other = NoOther
  /\ sevIn = <<>>
  /\ sevOut = NoSev
  /\ processed = NotProcessed

(***************************************************************************)
(* run() of main.ts, one action per awaited step                           *)
(***************************************************************************)
\* the catch block of run(): core.setFailed
Throw(log) ==
  /\ calls' = log
  /\ failed' = TRUE
  /\ pc' = "failed"

AckBody == PlainText
NoticeBody == PlainText

\* 1. Event handling: pull_request
PullRequestEvent ==
  /\ pc = "start"
  /\ event.name = "pull_request"
  /\ pc' = IF event.action \in {"opened", "synchronize"}
           THEN "getChangedFiles" ELSE "done"
  /\ UNCHANGED <<variant, event, config, diff, comments, nextId, customInstructions,
                 filesToReview, existingComments, existingInlineKeys, review,
                 calls, failed, outputs, before, replyVars, postedSummaries,
                 other, sevVars>>

\* 1. Event handling: issue_comment, with the acknowledgement comment
IssueCommentEvent ==
  /\ pc = "start"
  /\ event.name = "issue_comment"
  /\ \E up \in BOOLEAN :
       LET parsed == parseReviewComment(event.body) IN
       IF event.action # "created" \/ ~parsed.isReview \/ ~event.isPullRequest
       THEN /\ pc' = "done"
            /\ UNCHANGED <<comments, nextId, customInstructions, calls,
                           failed>>
       ELSE /\ customInstructions' = parsed.instructions
            /\ IF up
               THEN /\ comments' =
                         comments \cup {IssueComment(nextId, BotLogin, AckBody)}
                    /\ nextId' = nextId + 1
                    /\ calls' =
                         Append(calls, Call("issues.createComment", nextId, TRUE))
                    /\ pc' = "getChangedFiles"
                    /\ UNCHANGED failed
               ELSE /\ Throw(Append(calls,
                                    Call("issues.createComment", 0, FALSE)))
                    /\ UNCHANGED <<comments, nextId>>
  /\ UNCHANGED <<variant, event, config, diff, filesToReview, existingComments,
                 existingInlineKeys, review, outputs, before, replyVars, postedSummaries,
                 other, sevVars>>

\* 1. Event handling: any other event
UnsupportedEvent ==
  /\ pc = "start"
  /\ event.name \notin
       {"pull_request", "issue_comment", "pull_request_review_comment"}
  /\ pc' = "done"
  /\ UNCHANGED <<variant, event, config, diff, comments, nextId, customInstructions,
                 filesToReview, existingComments, existingInlineKeys, review,
                 calls, failed, outputs, before, replyVars, postedSummaries,
                 other, sevVars>>

\* getCommentThread: the root of the comment's thread and the replies to it,
\* oldest first
ThreadEntry(c) ==
  [author |-> c.login, body |-> c.body, isBot |-> c.login = BotLogin]

getCommentThread(cs, commentId) ==
  LET allComments == SortById({c \in cs : c.type = "review"})
      comment == Find(allComments, commentId)
      rootComment ==
        IF comment.inReplyTo # 0 /\ Found(allComments, comment.inReplyTo)
        THEN Find(allComments, comment.inReplyTo) ELSE comment
      thread == {rootComment} \cup
                  {c \in Range(allComments) : c.inReplyTo = rootComment.id}
      sorted == SortById(thread)
  IN [i \in DOMAIN sorted |-> ThreadEntry(sorted[i])]

\* the early returns of the reply flow without the test of the author
SkipsReviewComment_NoAuthorTest(action, comment) == action # "created"

\* the early returns of the reply flow: another action than created, or a
\* comment written by github-actions[bot]
SkipsReviewComment(action, comment) ==
  action # "created" \/ comment.login = BotLogin

\* 1. Event handling: pull_request_review_comment
ReviewCommentEvent ==
  /\ pc = "start"
  /\ event.name = "pull_request_review_comment"
  /\ \E comment \in {c \in comments :
                        c.type = "review" /\ c.id = event.commentId} :
       IF SkipsReviewComment(event.action, comment)
       THEN pc' = "done" /\ UNCHANGED trigger
       ELSE pc' = "replyContext" /\ trigger' = comment.id
  /\ UNCHANGED <<variant, event, config, diff, comments, nextId, customInstructions,
                 filesToReview, existingComments, existingInlineKeys, review,
                 calls, failed, outputs, before, threadComments, postedSummaries,
                 other, sevVars>>

\* the thread handed to generateReply without the fallback
ThreadOrFallback_NoFallback(fetched, comment) == fetched

\* an empty thread (getCommentThread failed) is replaced by the triggering
\* comment alone
ThreadOrFallback(fetched, comment) ==
  IF Len(fetched) = 0
  THEN << [author |-> comment.login, body |-> comment.body, isBot |-> FALSE] >>
  ELSE fetched

\* reply flow: fetch the diff, then the comment thread; a failed or empty
\* thread is replaced by the triggering comment alone
FetchReplyContext ==
  /\ pc = "replyContext"
  /\ \E up \in BOOLEAN, upThread \in BOOLEAN :
       LET log == Append(calls, Call("pulls.get.diff", 0, up))
           fetched == IF upThread /\ HasComment(comments, "review", trigger)
                      THEN getCommentThread(comments, trigger) ELSE <<>>
           comment == CHOOSE c \in comments :
                        c.type = "review" /\ c.id = trigger
       IN IF ~up THEN Throw(log) /\ UNCHANGED threadComments
          ELSE /\ threadComments' = ThreadOrFallback(fetched, comment)
               /\ calls' = Append(log, Call("getCommentThread", trigger,
                                            Len(fetched) > 0))
               /\ pc' = "replyPost"
               /\ UNCHANGED failed
  /\ UNCHANGED <<variant, event, config, diff, comments, nextId, customInstructions,
                 filesToReview, existingComments, existingInlineKeys, review,
                 outputs, before, trigger, postedSummaries,
                 other, sevVars>>

\* reply flow: generateReply, then createReply under the triggering comment
PostReply ==
  /\ pc = "replyPost"
  /\ \E outcome \in {"parseError", "aiError", "replyError", "ok"} :
       LET comment == CHOOSE c \in comments :
                        c.type = "review" /\ c.id = trigger
           logParse == Append(calls, Call("processDiff", 0,
                                          outcome # "parseError"))
           logAI == Append(logParse,
                      [op |-> "openai.chat.completions.reply", id |-> 0,
                       ok |-> outcome # "aiError",
                       comments |-> threadComments,
                       previousSummaries |-> <<>>])
       IN IF outcome = "parseError"
          THEN Throw(logParse) /\ UNCHANGED <<comments, nextId>>
          ELSE IF outcome = "aiError"
          THEN Throw(logAI) /\ UNCHANGED <<comments, nextId>>
          ELSE IF outcome = "replyError"
          THEN /\ Throw(Append(logAI,
                   Call("pulls.createReplyForReviewComment", trigger, FALSE)))
               /\ UNCHANGED <<comments, nextId>>
          ELSE /\ comments' = comments \cup
                    { ReviewComment(nextId, BotLogin, PlainText, comment.path,
                        comment.line, comment.position,
                        IF comment.inReplyTo # 0 THEN comment.inReplyTo
                        ELSE comment.id) }
               /\ nextId' = nextId + 1
               /\ calls' = Append(logAI,
                    Call("pulls.createReplyForReviewComment", trigger, TRUE))
               /\ pc' = "done"
               /\ UNCHANGED failed
  /\ UNCHANGED <<variant, event, config, diff, customInstructions, filesToReview,
                 existingComments, existingInlineKeys, review, outputs, before,
                 replyVars, postedSummaries,
                 other, sevVars>>

\* 2. Fetch changed files and filter the ignored ones; when none is left,
\* post the notice and return
GetChangedFiles ==
  /\ pc = "getChangedFiles"
  /\ \E up \in BOOLEAN, upNotice \in BOOLEAN :
       LET log == Append(calls, Call("pulls.listFiles", 0, up))
           changedFiles == [i \in DOMAIN diff |-> diff[i].to]
           kept == SelectSeq(changedFiles,
                     LAMBDA f : ~isFileIgnored(f, config.ignorePatterns))
       IN IF ~up
          THEN /\ Throw(log)
               /\ UNCHANGED <<comments, nextId, filesToReview>>
          ELSE /\ filesToReview' = kept
               /\ IF Len(kept) = 0
                  THEN IF upNotice
                       THEN /\ comments' = comments \cup
                                 {IssueComment(nextId, BotLogin, NoticeBody)}
                            /\ nextId' = nextId + 1
                            /\ calls' = Append(log,
                                 Call("issues.createComment", nextId, TRUE))
                            /\ pc' = "done"
                            /\ UNCHANGED failed
                       ELSE /\ Throw(Append(log,
                                 Call("issues.createComment", 0, FALSE)))
                            /\ UNCHANGED <<comments, nextId>>
                  ELSE /\ calls' = log
                       /\ pc' = "getDiff"
                       /\ UNCHANGED <<comments, nextId, failed>>
  /\ UNCHANGED <<variant, event, config, diff, customInstructions, existingComments,
                 existingInlineKeys, review, outputs, before, replyVars, postedSummaries,
                 other, sevVars>>

\* 3. Fetch the diff
GetPullRequestDiff ==
  /\ pc = "getDiff"
  /\ \E up \in BOOLEAN :
       LET log == Append(calls, Call("pulls.get.diff", 0, up)) IN
       IF up THEN calls' = log /\ pc' = "listBotComments" /\ UNCHANGED failed
       ELSE Throw(log)
  /\ UNCHANGED <<variant, event, config, diff, comments, nextId, customInstructions,
                 filesToReview, existingComments, existingInlineKeys, review,
                 outputs, before, replyVars, postedSummaries,
                 other, sevVars>>

\* the locations of the existing non-summary comments (deduplicating revision)
InlineKeys(existing) ==
  { <<existing[i].path, existing[i].line>> :
      i \in {j \in DOMAIN existing :
               /\ ~existing[j].isSummary
               /\ existing[j].path # NULL
               /\ existing[j].line # 0} }

\* 4. Fetch the existing bot comments
ListBotComments ==
  /\ pc = "listBotComments"
  /\ \E up \in BOOLEAN :
       LET log == Append(calls, Call("listComments", 0, up)) IN
       IF up
       THEN /\ existingComments' = listBotComments(comments)
            /\ existingInlineKeys' =
                 IF variant = "dedup"
                 THEN InlineKeys(listBotComments(comments)) ELSE {}
            /\ calls' = log
            /\ pc' = "deletePreviousSummaries"
            /\ UNCHANGED failed
       ELSE /\ Throw(log)
            /\ UNCHANGED <<existingComments, existingInlineKeys>>
  /\ UNCHANGED <<variant, event, config, diff, comments, nextId, customInstructions,
                 filesToReview, review, outputs, before, replyVars, postedSummaries,
                 other, sevVars>>

\* 4. Delete all previous summaries before creating the new one
DeletePreviousSummaries ==
  /\ pc = "deletePreviousSummaries"
  /\ \E up \in BOOLEAN, ups \in [1..Len(listBotComments(comments)) -> BOOLEAN] :
       LET log == Append(calls, Call("listComments", 0, up)) IN
       IF up
       THEN LET st == deletePreviousSummaries([cs |-> comments, log |-> log],
                                              ups)
            IN /\ comments' = st.cs
               /\ calls' = st.log
               /\ pc' = "getReview"
               /\ UNCHANGED failed
       ELSE /\ Throw(log)
            /\ UNCHANGED comments
  /\ UNCHANGED <<variant, event, config, diff, nextId, customInstructions,
                 filesToReview, existingComments, existingInlineKeys, review,
                 outputs, before, replyVars, postedSummaries,
                 other, sevVars>>

\* AIService.getReview: the tool calls of the completion become the
\* AIReviewResponse; the severity of every inline comment is normalized
getReview(summary, proposals, deleteIds, minimizeIds) ==
  [summary |-> summary,
   comments |->
     [i \in DOMAIN proposals |->
        [proposals[i] EXCEPT !.severity = AI_normalizeSeverity(@)]],
   deleteCommentIds |-> deleteIds,
   minimizeCommentIds |-> minimizeIds]

\* severity.toLowerCase() of normalizeSeverity throws a TypeError when the
\* severity is not a string; the map over args.comments then throws
ThrowsTypeError(proposals) ==
  \E i \in DOMAIN proposals : proposals[i].severity = Undefined

\* the bodies of the listed comments classified as summaries, which run()
\* collects before it deletes them
PreviousSummaries(existing) ==
  LET summaries == SelectSeq(existing, LAMBDA c : c.isSummary)
  IN [i \in DOMAIN summaries |-> summaries[i].body]

\* the previousSummaries argument run() hands to getReview: the literal []
PreviousSummariesArgument(existing) == <<>>

\* the completion call with the previous summaries of its prompt and the
\* inline comments of its answer
Completion(proposals) ==
  [op |-> "openai.chat.completions", id |-> 0, ok |-> TRUE,
   comments |-> proposals,
   previousSummaries |-> PreviousSummariesArgument(existingComments)]

\* 5. Get the AI review: processDiff may throw on the diff, the completion
\* call may throw, reading the tool calls may throw, otherwise the response
\* is returned
GetReview ==
  /\ pc = "getReview"
  /\ \E outcome \in {"parseError", "aiError", "ok"} :
       IF outcome = "parseError"
       THEN /\ Throw(Append(calls, Call("processDiff", 0, FALSE)))
            /\ UNCHANGED review
       ELSE IF outcome = "aiError"
       THEN /\ Throw(Append(Append(calls, Call("processDiff", 0, TRUE)),
                            Call("openai.chat.completions", 0, FALSE)))
            /\ UNCHANGED review
       ELSE \E summary \in AISummaries, proposals \in ProposalLists,
               deleteIds \in IdLists, minimizeIds \in IdLists :
              /\ Len(proposals) + Len(deleteIds) + Len(minimizeIds) <= MaxItems
              /\ IF ThrowsTypeError(proposals)
                 THEN /\ Throw(Append(Append(calls, Call("processDiff", 0, TRUE)),
                                      Completion(proposals)))
                      /\ UNCHANGED review
                 ELSE /\ review' =
                           getReview(summary, proposals, deleteIds, minimizeIds)
                      /\ calls' =
                           Append(Append(calls, Call("processDiff", 0, TRUE)),
                                  Completion(proposals))
                      /\ pc' = "minimize"
                      /\ UNCHANGED failed
  /\ UNCHANGED <<variant, event, config, diff, comments, nextId, customInstructions,
                 filesToReview, existingComments, existingInlineKeys, outputs,
                 before, replyVars, postedSummaries,
                 other, sevVars>>

MinimizeOutcomes == {"ok", "mutationFailed", "noNodeId"}

\* 6. Minimize the comments the AI asked to minimize
MinimizeComments ==
  /\ pc = "minimize"
  /\ IF Len(review.minimizeCommentIds) > 0
     THEN \E up \in BOOLEAN,
             outcomes \in [DOMAIN review.minimizeCommentIds -> MinimizeOutcomes] :
            LET log == Append(calls, Call("listComments", 0, up)) IN
            IF up
            THEN LET st == minimizeComments([cs |-> comments, log |-> log],
                              review.minimizeCommentIds, outcomes)
                 IN /\ comments' = st.cs
                    /\ calls' = st.log
                    /\ pc' = "delete"
                    /\ UNCHANGED failed
            ELSE Throw(log) /\ UNCHANGED comments
     ELSE pc' = "delete" /\ UNCHANGED <<comments, calls, failed>>
  /\ UNCHANGED <<variant, event, config, diff, nextId, customInstructions,
                 filesToReview, existingComments, existingInlineKeys, review,
                 outputs, before, replyVars, postedSummaries,
                 other, sevVars>>

\* the body of the delete loop leaving the loop after a failed delete call
DeleteOne_StopAfterFailure(st, existing, commentId, up) ==
  IF /\ st.log # <<>>
     /\ st.log[Len(st.log)].op \in
          {"issues.deleteComment", "pulls.deleteReviewComment"}
     /\ ~st.log[Len(st.log)].ok
  THEN st
  ELSE IF Found(existing, commentId)
  THEN IF Find(existing, commentId).type = "issue"
       THEN deleteComment(st, commentId, up)
       ELSE deleteReviewComment(st, commentId, up)
  ELSE deleteReviewComment(st, commentId, up)

\* the body of the delete loop for one id: the cached listing decides which
\* delete call is made; an id that is not cached is deleted as a review comment
DeleteOne(st, existing, commentId, up) ==
  IF Found(existing, commentId)
  THEN IF Find(existing, commentId).type = "issue"
       THEN deleteComment(st, commentId, up)
       ELSE deleteReviewComment(st, commentId, up)
  ELSE deleteReviewComment(st, commentId, up)

RECURSIVE DeleteEach(_, _, _, _, _)
DeleteEach(st, existing, commentIds, ups, i) ==
  IF i > Len(commentIds) THEN st
  ELSE DeleteEach(DeleteOne(st, existing, commentIds[i], ups[i]),
                  existing, commentIds, ups, i + 1)

\* 7. Delete the comments the AI asked to delete
DeleteComments ==
  /\ pc = "delete"
  /\ \E ups \in [DOMAIN review.deleteCommentIds -> BOOLEAN] :
       LET st == DeleteEach([cs |-> comments, log |-> calls],
                            existingComments, review.deleteCommentIds, ups, 1)
       IN /\ comments' = st.cs
          /\ calls' = st.log
  /\ pc' = "createReview"
  /\ UNCHANGED <<variant, event, config, diff, nextId, customInstructions,
                 filesToReview, existingComments, existingInlineKeys, review,
                 failed, outputs, before, replyVars, postedSummaries,
                 other, sevVars>>

\* 8. the inline comments that survive the filters of run()
validComments(rv, files) ==
  SelectSeq(rv.comments, LAMBDA c : c.file \in Range(files))

filteredComments(rv, files, minSeverity) ==
  LET minSeverityLevel == getSeverityLevel(minSeverity) IN
  SelectSeq(validComments(rv, files),
    LAMBDA c : GreaterOrEqual(getSeverityLevel(c.severity), minSeverityLevel))

deduplicatedComments(rv, files, minSeverity, keys) ==
  SelectSeq(filteredComments(rv, files, minSeverity),
    LAMBDA c : <<c.file, c.line>> \notin keys)

\* the list run() converts to formattedComments: main.ts posts the
\* severity-filtered list, the deduplicating revision the deduplicated one
FinalComments(v, rv, files, minSeverity, keys) ==
  IF v = "dedup" THEN deduplicatedComments(rv, files, minSeverity, keys)
  ELSE filteredComments(rv, files, minSeverity)

formattedComments(list) ==
  [i \in DOMAIN list |->
     [path |-> list[i].file, line |-> list[i].line, body |-> list[i].body,
      severity |-> list[i].severity]]

\* the comments argument of githubService.createReview with the
\* disable_inline input ignored
CommentsArgument_IgnoreDisableInline(cfg, formatted) == formatted

\* the comments argument of githubService.createReview:
\* config.disableInline ? undefined : formattedComments
CommentsArgument(cfg, formatted) ==
  IF cfg.disableInline THEN <<>> ELSE formatted

\* pulls.createReview on the platform: one review comment per entry
NewReviewComments(list, firstId) ==
  { ReviewComment(firstId + i - 1, BotLogin,
                  formatInlineComment(list[i].body, list[i].severity),
                  list[i].path, list[i].line, TRUE, 0) : i \in DOMAIN list }

\* the platform rejects a review with a comment on a line outside the diff
PlatformAccepts(list, d) ==
  \A i \in DOMAIN list : <<list[i].path, list[i].line>> \in NewSideAnchors(d)

\* 8. Post the review: head SHA, createReview (summary comment, then the
\* inline comments as one review), outputs
CreateReview ==
  /\ pc = "createReview"
  /\ \E upSha \in BOOLEAN, upSummary \in BOOLEAN, upReview \in BOOLEAN :
       LET final == FinalComments(variant, review, filesToReview,
                                  config.minSeverity, existingInlineKeys)
           given == CommentsArgument(config, formattedComments(final))
           logSha == Append(calls, Call("pulls.get", 0, upSha))
           logSummary ==
             Append(logSha, Call("issues.createComment",
                                 IF upSummary THEN nextId ELSE 0, upSummary))
           withSummary ==
             comments \cup
               {IssueComment(nextId, BotLogin, formatSummary(review.summary))}
           okReview == upReview /\ PlatformAccepts(given, diff)
           logReview ==
             Append(logSummary,
                    [op |-> "pulls.createReview", id |-> 0, ok |-> okReview,
                     comments |-> given, previousSummaries |-> <<>>])
       IN
       /\ postedSummaries' = IF upSha /\ upSummary
                             THEN Append(postedSummaries, nextId)
                             ELSE postedSummaries
       /\ IF ~upSha THEN Throw(logSha) /\ UNCHANGED <<comments, nextId, outputs>>
          ELSE IF ~upSummary
          THEN Throw(logSummary) /\ UNCHANGED <<comments, nextId, outputs>>
          ELSE IF Len(given) = 0
          THEN /\ comments' = withSummary
               /\ nextId' = nextId + 1
               /\ calls' = logSummary
               /\ pc' = "done"
               /\ outputs' =
                    [comments_count |-> Len(final),
                     minimized_comments_count |-> Len(review.minimizeCommentIds),
                     deleted_comments_count |-> Len(review.deleteCommentIds)]
               /\ UNCHANGED failed
          ELSE IF ~okReview
          THEN /\ comments' = withSummary
               /\ nextId' = nextId + 1
               /\ Throw(logReview)
               /\ UNCHANGED outputs
          ELSE /\ comments' = withSummary \cup NewReviewComments(given, nextId + 1)
               /\ nextId' = nextId + 1 + Len(given)
               /\ calls' = logReview
               /\ pc' = "done"
               /\ outputs' =
                    [comments_count |-> Len(final),
                     minimized_comments_count |-> Len(review.minimizeCommentIds),
                     deleted_comments_count |-> Len(review.deleteCommentIds)]
               /\ UNCHANGED failed
  /\ UNCHANGED <<variant, event, config, diff, customInstructions, filesToReview,
                 existingComments, existingInlineKeys, review, before,
                 replyVars, other, sevVars>>

(***************************************************************************)
(* The severity helpers applied to one input string                        *)
(***************************************************************************)
WhiteSpace == {" ", "\t"}
Pads == SeqsUpTo(WhiteSpace, MaxPad)
SeverityCores ==
  { Low, Medium, High, Critical,
    <<"L", "O", "W">>, <<"M", "e", "d", "i", "u", "m">>,
    <<"H", "I", "G", "H">>, <<"C", "r", "i", "t", "i", "c", "a", "l">>,
    <<"u", "r", "g", "e", "n", "t">>, <<>>, <<"h", "i", " ", "g", "h">>,
    <<"l", "o", "w", "x">>, ConstructorKey, ProtoKey }
SeverityInputs == {l \o c \o r : l \in Pads, c \in SeverityCores, r \in Pads}

SevInit ==
  /\ variant = "main"
  /\ event = Event("pull_request", "opened", <<>>, FALSE, 0)
  /\ config = getConfig(<<>>, FALSE)
  /\ diff = DiffCode
  /\ comments = {}
  /\ before = {}
  /\ nextId = 1
  /\ pc = "start"
  /\ customInstructions = <<>>
  /\ filesToReview = <<>>
  /\ existingComments = <<>>
  /\ existingInlineKeys = {}
  /\ review = NoReview
  /\ calls = <<>>
  /\ failed = FALSE
  /\ outputs = NoOutputs
  /\ trigger = 0
  /\ threadComments = <<>>
  /\ postedSummaries = <<>>
  /\ other = NoOther
  /\ sevIn \in SeverityInputs
  /\ sevOut = NoSev
  /\ processed = NotProcessed

ApplyNormalizeSeverity ==
  /\ "utils" \notin sevOut.done
  /\ sevOut' = [sevOut EXCEPT !.utils = normalizeSeverity(sevIn),
                              !.done = @ \cup {"utils"}]
  /\ UNCHANGED <<runVars, sevIn, processed>>

ApplyAINormalizeSeverity ==
  /\ "ai" \notin sevOut.done
  /\ sevOut' = [sevOut EXCEPT !.ai = AI_normalizeSeverity(sevIn),
                              !.done = @ \cup {"ai"}]
  /\ UNCHANGED <<runVars, sevIn, processed>>

ApplyConfigNormalizeSeverity ==
  /\ "config" \notin sevOut.done
  /\ sevOut' = [sevOut EXCEPT !.config = Config_normalizeSeverity(sevIn),
                              !.done = @ \cup {"config"}]
  /\ UNCHANGED <<runVars, sevIn, processed>>

\* normalizeSeverity on its own result
ApplyNormalizeTwice ==
  /\ "utils" \in sevOut.done
  /\ "twice" \notin sevOut.done
  /\ sevOut' = [sevOut EXCEPT !.twice = normalizeSeverity(sevOut.utils),
                              !.done = @ \cup {"twice"}]
  /\ UNCHANGED <<runVars, sevIn, processed>>

ApplyGetSeverityLevel ==
  /\ "level" \notin sevOut.done
  /\ sevOut' = [sevOut EXCEPT !.level = getSeverityLevel(sevIn),
                              !.done = @ \cup {"level"}]
  /\ UNCHANGED <<runVars, sevIn, processed>>

SevNext ==
  \/ ApplyNormalizeSeverity
  \/ ApplyAINormalizeSeverity
  \/ ApplyConfigNormalizeSeverity
  \/ ApplyNormalizeTwice
  \/ ApplyGetSeverityLevel

SevSpec == SevInit /\ [][SevNext]_vars

Next ==
  \/ PullRequestEvent
  \/ ReviewCommentEvent
  \/ FetchReplyContext
  \/ PostReply
  \/ IssueCommentEvent
  \/ UnsupportedEvent
  \/ GetChangedFiles
  \/ GetPullRequestDiff
  \/ ListBotComments
  \/ DeletePreviousSummaries
  \/ GetReview
  \/ MinimizeComments
  \/ DeleteComments
  \/ CreateReview

Spec == Init /\ [][Next]_vars

(***************************************************************************)
(* Vocabulary of the properties                                            *)
(***************************************************************************)
DeleteOps == {"issues.deleteComment", "pulls.deleteReviewComment"}
MinimizeOps == {"graphql.minimizeComment"}
MutationOps ==
  DeleteOps \cup MinimizeOps \cup {"issues.createComment", "pulls.createReview"}

CallsOf(ops) == {i \in DOMAIN calls : calls[i].op \in ops}
DeleteCallIds == {calls[i].id : i \in CallsOf(DeleteOps)}
MinimizeCallIds == {calls[i].id : i \in CallsOf(MinimizeOps)}

\* the inline comments handed to pulls.createReview so far
HandedComments ==
  UNION {Range(calls[i].comments) : i \in CallsOf({"pulls.createReview"})}

\* the AI review has returned, i.e. run() is past step 5
Reviewed == \E i \in DOMAIN calls :
              /\ calls[i].op = "openai.chat.completions"
              /\ calls[i].ok
              /\ ~ThrowsTypeError(calls[i].comments)

\* anchors of the prior bot comments that are active findings
ActiveFindingAnchors ==
  { <<existingComments[i].path, existingComments[i].line>> :
      i \in {j \in DOMAIN existingComments :
               /\ existingComments[j].type = "review"
               /\ ~existingComments[j].isOutdated
               /\ ~existingComments[j].isMinimized} }

\* the order of the four tiers, as the specification gives it
TierRank(t) ==
  CASE t = Low -> 0 [] t = Medium -> 1 [] t = High -> 2 [] t = Critical -> 3

\* s is tier t with any letter case and any white space around it
IsSpelling(s, t) ==
  \E a \in 0..Len(s), b \in 0..Len(s) :
    /\ a + Len(t) + b = Len(s)
    /\ \A i \in 1..a : IsWhiteSpace(s[i])
    /\ \A i \in 1..b : IsWhiteSpace(s[Len(s) + 1 - i])
    /\ \A i \in 1..Len(t) : LowerChar(s[a + i]) = t[i]

(***************************************************************************)
(* C1. Every inline comment handed to createReview is on an added line of  *)
(* the pull request's diff.                                                *)
(***************************************************************************)
C1_AnchorsAreAddedLines ==
  \A c \in HandedComments : <<c.path, c.line>> \in AddedAnchors(diff)

(***************************************************************************)
(* C2. Every delete or minimize call targets a comment written by the bot; *)
(* no comment of another author is removed or minimized by a run.          *)
(***************************************************************************)
C2_OnlyBotCommentsTouched ==
  /\ \A i \in CallsOf(DeleteOps \cup MinimizeOps) :
       \A c \in before : c.id = calls[i].id => c.login = BotLogin
  /\ \A c \in before : c.login # BotLogin => c \in comments

(***************************************************************************)
(* C3. An id the AI asks both to delete and to minimize gets a delete call *)
(* and never a minimize call.                                              *)
(***************************************************************************)
C3_DeleteWins ==
  \A id \in Range(review.deleteCommentIds) \cap Range(review.minimizeCommentIds) :
    /\ id \notin MinimizeCallIds
    /\ pc \in {"createReview", "done"} => id \in DeleteCallIds

(***************************************************************************)
(* C4. No inline comment is posted at a (file, line) that an active prior  *)
(* bot finding already covers.                                             *)
(***************************************************************************)
C4_NoPostAtCoveredAnchor ==
  \A c \in HandedComments : <<c.path, c.line>> \notin ActiveFindingAnchors

(***************************************************************************)
(* C5 as stated. The ids a run issues delete calls for are the ids the AI  *)
(* asked to delete, and no others.                                         *)
(***************************************************************************)
C5_DeletesAreExplicit ==
  /\ DeleteCallIds \subseteq Range(review.deleteCommentIds)
  /\ pc \in {"createReview", "done"} /\ Reviewed =>
       DeleteCallIds = Range(review.deleteCommentIds)

\* ids of the prior comments the listing classifies as summaries
SummaryIds ==
  { existingComments[i].id :
      i \in {j \in DOMAIN existingComments : existingComments[j].isSummary} }

(***************************************************************************)
(* C5 amended. A run issues delete calls only for the ids the AI asked to  *)
(* delete and for the bot's previous summary comments; once the delete     *)
(* step is over, it has issued one for exactly those ids.                  *)
(***************************************************************************)
C5_DeletesAreExplicitOrSummaries ==
  /\ DeleteCallIds \subseteq Range(review.deleteCommentIds) \cup SummaryIds
  /\ pc \in {"createReview", "done"} /\ Reviewed =>
       DeleteCallIds = Range(review.deleteCommentIds) \cup SummaryIds

C5_Witness ==
  /\ pc = "done"
  /\ Reviewed
  /\ SummaryIds # {}
  /\ Range(review.deleteCommentIds) \ SummaryIds # {}
  /\ DeleteCallIds = Range(review.deleteCommentIds) \cup SummaryIds

(***************************************************************************)
(* C6. Every platform mutation of a run comes after the diff fetch, the    *)
(* bot-comment listing and the AI review call have completed.              *)
(***************************************************************************)
C6_MutationsAfterReads ==
  \A i \in CallsOf(MutationOps) :
    /\ \E j \in 1..(i - 1) : calls[j].op = "pulls.get.diff" /\ calls[j].ok
    /\ \E j \in 1..(i - 1) : calls[j].op = "listComments" /\ calls[j].ok
    /\ \E j \in 1..(i - 1) :
         calls[j].op = "openai.chat.completions" /\ calls[j].ok

(***************************************************************************)
(* C7. When the diff fetch, the diff parse or the AI review call fails,    *)
(* the run is marked failed and the comments are those of before the run.  *)
(***************************************************************************)
C7_FailureLeavesCommentsUntouched ==
  ( /\ calls # <<>>
    /\ calls[Len(calls)].op \in
         {"pulls.get.diff", "processDiff", "openai.chat.completions"}
    /\ ~calls[Len(calls)].ok )
  => failed /\ comments = before

(***************************************************************************)
(* C8. getSeverityLevel gives rank 0..3 to the four tier names, whatever   *)
(* their case and surrounding white space, and 0 to every other string.    *)
(***************************************************************************)
C8_SeverityLevelIsRankOrZero ==
  "level" \in sevOut.done =>
     sevOut.level =
       Num(IF \E t \in Tiers : IsSpelling(sevIn, t)
           THEN TierRank(CHOOSE t \in Tiers : IsSpelling(sevIn, t))
           ELSE 0)

\* the proposals that pass the filters of run() other than the severity one
PassOtherFilters ==
  { c \in Range(review.comments) :
      /\ c.file \in Range(filesToReview)
      /\ variant = "dedup" => <<c.file, c.line>> \notin existingInlineKeys }

(***************************************************************************)
(* C8, the half about run(): among the proposals that pass the other       *)
(* filters, the ones handed to createReview are those whose rank is at     *)
(* least the rank of min_severity.  This half holds.                       *)
(***************************************************************************)
C8_PostedIffRankSuffices ==
  \A i \in CallsOf({"pulls.createReview"}) :
    Range(calls[i].comments) =
      Range(formattedComments(SetToSeqOf(
        {c \in PassOtherFilters :
           TierRank(c.severity) >= TierRank(config.minSeverity)})))

\* the inline comments a run with threshold t would hand to createReview
PostedWith(t) ==
  Range(formattedComments(
          FinalComments(variant, review, filesToReview, t, existingInlineKeys)))

(***************************************************************************)
(* C9. For thresholds t1 <= t2 the inline comments posted with t2 are      *)
(* among those posted with t1; what the run hands to createReview is among *)
(* those of every threshold up to the configured one.                      *)
(***************************************************************************)
C9_SeverityMonotone ==
  Reviewed =>
    \A posted \in {[t \in Tiers |-> PostedWith(t)]} :
    /\ \A t1, t2 \in Tiers :
         TierRank(t1) <= TierRank(t2) => posted[t2] \subseteq posted[t1]
    /\ \A t \in Tiers :
         TierRank(t) <= TierRank(config.minSeverity) =>
           HandedComments \subseteq posted[t]

C9_Witness ==
  /\ pc = "done"
  /\ HandedComments # {}
  /\ PostedWith(Critical) # PostedWith(High)
  /\ PostedWith(High) # PostedWith(Low)
  /\ TierRank(config.minSeverity) > 0

(***************************************************************************)
(* C10. normalizeSeverity returns the tier an input spells (trimmed and    *)
(* lower-cased) and low for every other input; its result is always a      *)
(* tier, it is idempotent, and its three copies agree.                     *)
(***************************************************************************)
C10_NormalizeSeverity ==
  /\ "utils" \in sevOut.done =>
       /\ sevOut.utils \in Tiers
       /\ \A t \in Tiers : IsSpelling(sevIn, t) => sevOut.utils = t
       /\ (~\E t \in Tiers : IsSpelling(sevIn, t)) => sevOut.utils = Low
  /\ "twice" \in sevOut.done => sevOut.twice = sevOut.utils
  /\ {"utils", "ai"} \subseteq sevOut.done => sevOut.ai = sevOut.utils
  /\ {"utils", "config"} \subseteq sevOut.done => sevOut.config = sevOut.utils

C10_Witness ==
  /\ sevOut.done = {"utils", "ai", "config", "twice", "level"}
  /\ sevIn # sevOut.utils
  /\ sevOut.utils = High

(***************************************************************************)
(* C11. A malformed finding in the AI's answer does not abort the run:     *)
(* right after the completion has answered, the run is not marked failed,  *)
(* and a finished run has posted the summary.                              *)
(***************************************************************************)
C11_MalformedFindingDoesNotAbort ==
  \A i \in CallsOf({"openai.chat.completions"}) :
    calls[i].ok /\ ThrowsTypeError(calls[i].comments) =>
      /\ i = Len(calls) => ~failed
      /\ pc = "done" =>
           \E j \in CallsOf({"issues.createComment"}) : j > i /\ calls[j].ok

\* ids for which minimizeComment was entered (its node id lookup was made)
MinimizeAttemptIds == {calls[i].id : i \in CallsOf({"pulls.getReviewComment"})}

\* ids of the bot's review comments, the ones minimizeComments acts on
BotReviewIds == {c.id : c \in {d \in before : d.type = "review" /\ d.login = BotLogin}}

(***************************************************************************)
(* C12. A failed delete or minimize call never marks the run failed; once  *)
(* the minimize step is over every requested id of a bot review comment    *)
(* was attempted, once the delete step is over every requested id has a    *)
(* delete call, and a finished run has posted its summary.                 *)
(***************************************************************************)
C12_MutationFailureDoesNotAbort ==
  /\ failed =>
       calls[Len(calls)].op \notin
         DeleteOps \cup MinimizeOps \cup {"pulls.getReviewComment"}
  /\ Reviewed /\ pc \in {"delete", "createReview", "done"} =>
       Range(review.minimizeCommentIds) \cap BotReviewIds
         \subseteq MinimizeAttemptIds
  /\ Reviewed /\ pc \in {"createReview", "done"} =>
       Range(review.deleteCommentIds) \subseteq DeleteCallIds
  /\ Reviewed /\ pc = "done" =>
       \E i \in CallsOf({"openai.chat.completions"}),
          j \in CallsOf({"issues.createComment"}) : i < j /\ calls[j].ok

C12_Witness ==
  /\ pc = "done"
  /\ ~failed
  /\ \E i \in CallsOf(MinimizeOps), j \in CallsOf(DeleteOps),
        k \in CallsOf({"issues.createComment"}) :
        i < j /\ j < k /\ ~calls[i].ok /\ ~calls[j].ok /\ calls[k].ok

\* the summary comment a finished review run has posted
PostedSummary(c) ==
  /\ c.type = "issue"
  /\ c.login = BotLogin
  /\ c.body = formatSummary(review.summary)
  /\ c \notin before

(***************************************************************************)
(* C13. With disable_inline set, a review run hands no inline comment to   *)
(* the platform and adds no review comment, whatever the AI proposed, and  *)
(* a finished review run has posted the summary.                           *)
(***************************************************************************)
C13_DisableInlinePostsSummaryOnly ==
  config.disableInline =>
    /\ CallsOf({"pulls.createReview"}) = {}
    /\ trigger = 0 =>
         \A c \in comments :
           c.type = "review" => \E b \in before : b.type = "review" /\ b.id = c.id
    /\ Reviewed /\ pc = "done" => \E c \in comments : PostedSummary(c)

C13_Witness ==
  /\ config.disableInline
  /\ Reviewed
  /\ pc = "done"
  /\ Len(FinalComments(variant, review, filesToReview, config.minSeverity,
                       existingInlineKeys)) > 0
  /\ \E c \in comments : PostedSummary(c)

\* a proposal of the AI that no rule of the specification filters out
Eligible(c) ==
  /\ c.file \in Range(filesToReview)
  /\ <<c.file, c.line>> \in AddedAnchors(diff)
  /\ TierRank(c.severity) >= TierRank(config.minSeverity)
  /\ <<c.file, c.line>> \notin ActiveFindingAnchors

\* a is b with some entries left out, the others in the same order
RECURSIVE IsSubsequence(_, _)
IsSubsequence(a, b) ==
  IF a = <<>> THEN TRUE
  ELSE IF b = <<>> THEN FALSE
  ELSE IF Head(a) = Head(b) THEN IsSubsequence(Tail(a), Tail(b))
  ELSE IsSubsequence(a, Tail(b))

(***************************************************************************)
(* C14. No over-filtering: a finished review run with inline comments      *)
(* enabled has handed every eligible proposal to createReview, in the      *)
(* order proposed; and when the AI asked for no deletion and no            *)
(* minimization, only previous summaries got a delete call and nothing a   *)
(* minimize call.                                                          *)
(***************************************************************************)
C14_NoOverFiltering ==
  /\ Reviewed /\ pc = "done" /\ ~config.disableInline =>
       \A eligible \in {formattedComments(SelectSeq(review.comments, Eligible))} :
         eligible # <<>> =>
           \E i \in CallsOf({"pulls.createReview"}) :
             calls[i].ok /\ IsSubsequence(eligible, calls[i].comments)
  /\ Reviewed /\ review.deleteCommentIds = <<>>
       /\ review.minimizeCommentIds = <<>> =>
       DeleteCallIds \subseteq SummaryIds /\ MinimizeCallIds = {}

(***************************************************************************)
(* Review runs one after another on the same pull request                  *)
(***************************************************************************)
\* most review runs on one pull request
MaxRuns == 2

\* the AI answered with a summary alone
SummaryOnly(rv) ==
  /\ rv.comments = <<>>
  /\ rv.deleteCommentIds = <<>>
  /\ rv.minimizeCommentIds = <<>>

\* the next event arrives after a review run in which every call succeeded:
\* run() starts again with the comments the earlier runs left.  The runs
\* followed by another are those whose review was a summary alone; the last
\* run of a sequence is unrestricted
StartNextRun ==
  /\ pc = "done"
  /\ ~failed
  /\ Len(postedSummaries) < MaxRuns
  /\ \A i \in DOMAIN calls : calls[i].ok
  /\ Reviewed
  /\ SummaryOnly(review)
  /\ pc' = "start"
  /\ event' \in Events(comments)
  /\ before' = comments
  /\ customInstructions' = <<>>
  /\ filesToReview' = <<>>
  /\ existingComments' = <<>>
  /\ existingInlineKeys' = {}
  /\ review' = NoReview
  /\ calls' = <<>>
  /\ outputs' = NoOutputs
  /\ trigger' = 0
  /\ threadComments' = <<>>
  /\ UNCHANGED <<variant, config, diff, comments, nextId, failed,
                 postedSummaries, other, sevVars>>

RerunInit ==
  /\ Init
  /\ config = getConfig(<<>>, FALSE)
  /\ comments = ReviewedBefore

RerunNext == Next \/ StartNextRun

RerunSpec == RerunInit /\ [][RerunNext]_vars

\* the comments createReview posted as summaries that are still there
StandingSummaries ==
  {c \in comments : c.type = "issue" /\ c.id \in Range(postedSummaries)}

(***************************************************************************)
(* C15. After review runs in which every call succeeded, at most one       *)
(* comment that createReview posted as a summary is on the pull request.   *)
(***************************************************************************)
C15_AtMostOneSummary ==
  pc = "done" /\ ~failed /\ (\A i \in DOMAIN calls : calls[i].ok) =>
    Cardinality(StandingSummaries) <= 1

\* the ids the AI asked to minimize and did not ask to delete
MinimizeOnlyRequests ==
  Range(review.minimizeCommentIds) \ Range(review.deleteCommentIds)

(***************************************************************************)
(* C16 as stated. Once the minimize step is over, every id of a comment of *)
(* the pull request that the AI asked to minimize and not to delete has    *)
(* been handed to minimizeComment.                                         *)
(***************************************************************************)
C16_EveryMinimizeRequestHonored ==
  Reviewed /\ pc \in {"delete", "createReview", "done"} =>
    \A id \in MinimizeOnlyRequests :
      (\E c \in before : c.id = id) => id \in MinimizeAttemptIds

(***************************************************************************)
(* C16 amended. Once the minimize step is over, minimizeComment has been   *)
(* entered for every requested id that is a review comment of the bot,     *)
(* outdated or not, and for no other id; each successful node id lookup is *)
(* followed by the minimize mutation for that id.                          *)
(***************************************************************************)
C16_BotReviewCommentsMinimized ==
  /\ Reviewed /\ pc \in {"delete", "createReview", "done"} =>
       /\ MinimizeOnlyRequests \cap BotReviewIds \subseteq MinimizeAttemptIds
       /\ MinimizeAttemptIds = Range(review.minimizeCommentIds) \cap BotReviewIds
  /\ \A i \in CallsOf({"pulls.getReviewComment"}) :
       calls[i].ok =>
         /\ i < Len(calls)
         /\ calls[i + 1].op = "graphql.minimizeComment"
         /\ calls[i + 1].id = calls[i].id

C16_Witness ==
  /\ pc = "done"
  /\ review.minimizeCommentIds = <<2, 4>>
  /\ \E c \in before : c.id = 2 /\ c.login = BotLogin /\ c.position
  /\ \E c \in before : c.id = 4 /\ c.login = BotLogin /\ ~c.position
  /\ MinimizeCallIds = {2, 4}

(***************************************************************************)
(* utils.ts: processDiff, on the result of parseDiff                       *)
(***************************************************************************)
\* most lines in one hunk
MaxChanges == 3

\* parseDiff on one hunk.  The lines of a hunk are given by their first
\* character: "add" (+), "del" (-), "normal" (blank) and "eof", the marker
\* "\ No newline at end of file".  An added line gets ln and a context line
\* ln2 from the counter seeded with the new start of the hunk header; the
\* marker becomes a change with the type and the numbers of the change in
\* front of it.  content is the position of the line in the hunk.
\* ln = 0 / ln2 = 0 stand for the absent property
RECURSIVE ParseChanges(_, _, _, _)
ParseChanges(lines, i, addedLineCounter, changes) ==
  IF i > Len(lines) THEN changes
  ELSE IF lines[i] = "add"
  THEN ParseChanges(lines, i + 1, addedLineCounter + 1,
         Append(changes, [type |-> "add", ln |-> addedLineCounter, ln2 |-> 0,
                          content |-> i]))
  ELSE IF lines[i] = "normal"
  THEN ParseChanges(lines, i + 1, addedLineCounter + 1,
         Append(changes, [type |-> "normal", ln |-> 0, ln2 |-> addedLineCounter,
                          content |-> i]))
  ELSE IF lines[i] = "del"
  THEN ParseChanges(lines, i + 1, addedLineCounter,
         Append(changes, [type |-> "del", ln |-> 0, ln2 |-> 0, content |-> i]))
  ELSE ParseChanges(lines, i + 1, addedLineCounter,
         Append(changes, [changes[Len(changes)] EXCEPT !.content = i]))

\* the marker as the first line of a hunk has no change in front of it:
\* parseDiff throws
ParseThrows(d) ==
  \E f \in DOMAIN d : \E h \in DOMAIN d[f].chunks :
    d[f].chunks[h].changes[1] = "eof"

parseDiff(d) ==
  [f \in DOMAIN d |->
     [to |-> d[f].to,
      chunks |->
        [h \in DOMAIN d[f].chunks |->
           [newStart |-> d[f].chunks[h].newStart,
            changes |-> ParseChanges(d[f].chunks[h].changes, 1,
                                     d[f].chunks[h].newStart, <<>>)]]]]

\* the output line of one change: the new-file line number and the content,
\* or the content alone for a deleted line
ChangeLine(file, hunk, change) ==
  IF change.type = "add"
  THEN [kind |-> "change", file |-> file, hunk |-> hunk, numbered |-> TRUE,
        number |-> change.ln, content |-> change.content]
  ELSE IF change.type = "normal"
  THEN [kind |-> "change", file |-> file, hunk |-> hunk, numbered |-> TRUE,
        number |-> change.ln2, content |-> change.content]
  ELSE [kind |-> "change", file |-> file, hunk |-> hunk, numbered |-> FALSE,
        number |-> 0, content |-> change.content]

HeaderLine(kind, file, hunk) ==
  [kind |-> kind, file |-> file, hunk |-> hunk, numbered |-> FALSE,
   number |-> 0, content |-> 0]

ChunkLines(file, hunk, chunk) ==
  <<HeaderLine("chunk", file, hunk)>>
    \o [i \in DOMAIN chunk.changes |-> ChangeLine(file, hunk, chunk.changes[i])]

RECURSIVE FileChunkLines(_, _, _)
FileChunkLines(file, chunks, h) ==
  IF h > Len(chunks) THEN <<>>
  ELSE ChunkLines(file, h, chunks[h]) \o FileChunkLines(file, chunks, h + 1)

\* the header lines of each file (an index line, when the file has one, is
\* one more header line), then its chunks
RECURSIVE ProcessFiles(_, _)
ProcessFiles(parsed, f) ==
  IF f > Len(parsed) THEN <<>>
  ELSE << HeaderLine("diff --git", f, 0), HeaderLine("---", f, 0),
          HeaderLine("+++", f, 0) >>
         \o FileChunkLines(f, parsed[f].chunks, 1)
         \o ProcessFiles(parsed, f + 1)

\* processDiff: the processed lines, or the error thrown by the catch block
processDiff(d) ==
  IF ParseThrows(d) THEN [done |-> TRUE, threw |-> TRUE, lines |-> <<>>]
  ELSE [done |-> TRUE, threw |-> FALSE, lines |-> ProcessFiles(parseDiff(d), 1)]

\* hunks of at most MaxChanges lines, starting at new line 1 or 5
HunkLines == UNION {[1..k -> {"add", "normal", "del", "eof"}] : k \in 1..MaxChanges}
Hunks == {[newStart |-> n, changes |-> l] : n \in {1, 5}, l \in HunkLines}
\* a later hunk of the same file, beyond the lines of every first hunk
LaterHunks ==
  { [newStart |-> 20, changes |-> <<"normal", "add">>],
    [newStart |-> 20, changes |-> <<"del", "add", "eof">>] }
SecondFile == [to |-> "b.ts", chunks |-> <<[newStart |-> 1, changes |-> <<"add">>]>>]

\* well-formed diffs: one file with one hunk, one file with two hunks, two
\* files
Diffs ==
  { <<[to |-> "a.ts", chunks |-> <<h>>]>> : h \in Hunks }
    \cup { <<[to |-> "a.ts", chunks |-> <<h, l>>]>> : h \in Hunks, l \in LaterHunks }
    \cup { <<[to |-> "a.ts", chunks |-> <<h>>], SecondFile>> : h \in Hunks }

DiffInit ==
  /\ variant = "main"
  /\ event = Event("pull_request", "opened", <<>>, FALSE, 0)
  /\ config = getConfig(<<>>, FALSE)
  /\ diff \in Diffs
  /\ comments = {}
  /\ before = {}
  /\ nextId = 1
  /\ pc = "start"
  /\ customInstructions = <<>>
  /\ filesToReview = <<>>
  /\ existingComments = <<>>
  /\ existingInlineKeys = {}
  /\ review = NoReview
  /\ calls = <<>>
  /\ failed = FALSE
  /\ outputs = NoOutputs
  /\ trigger = 0
  /\ threadComments = <<>>
  /\ postedSummaries = <<>>
  /\ other = NoOther
  /\ sevIn = <<>>
  /\ sevOut = NoSev
  /\ processed = NotProcessed

ApplyProcessDiff ==
  /\ ~processed.done
  /\ processed' = processDiff(diff)
  /\ UNCHANGED <<runVars, sevIn, sevOut>>

DiffNext == ApplyProcessDiff

DiffSpec == DiffInit /\ [][DiffNext]_vars

\* the processed lines of the changes of hunk h of file f, in output order
LinesOfHunk(f, h) ==
  SelectSeq(processed.lines,
            LAMBDA l : l.kind = "change" /\ l.file = f /\ l.hunk = h)

\* the numbers on the numbered lines of a sequence of processed lines
Numbers(lines) ==
  LET numbered == SelectSeq(lines, LAMBDA l : l.numbered)
  IN [i \in DOMAIN numbered |-> numbered[i].number]

(***************************************************************************)
(* C17. In the output of processDiff every hunk keeps its lines in input   *)
(* order, no deleted line carries a number, and the numbers on the lines   *)
(* of a hunk are the new start of the hunk header, then one more for each  *)
(* further numbered line; within a file the numbers strictly increase.     *)
(***************************************************************************)
C17_LineNumbersCount ==
  processed.done /\ ~processed.threw =>
    \A f \in DOMAIN diff :
      /\ \A h \in DOMAIN diff[f].chunks :
           \A out \in {LinesOfHunk(f, h)} :
             /\ Len(out) = Len(diff[f].chunks[h].changes)
             /\ \A i \in DOMAIN out :
                  /\ out[i].content = i
                  /\ diff[f].chunks[h].changes[i] \in {"add", "normal"} =>
                       out[i].numbered
                  /\ diff[f].chunks[h].changes[i] = "del" => ~out[i].numbered
             /\ \A i \in DOMAIN Numbers(out) :
                  Numbers(out)[i] = diff[f].chunks[h].newStart + i - 1
      /\ \A nums \in {Numbers(SelectSeq(processed.lines,
                                        LAMBDA l : l.file = f))} :
           \A i, j \in DOMAIN nums : i < j => nums[i] < nums[j]
(***************************************************************************)
(* C18. A comment that a run has minimized stays minimized while it        *)
(* exists, and deleted is terminal: after a successful delete call for an  *)
(* id the run issues no further delete or minimize call for that id.       *)
(***************************************************************************)
C18_DeletedIsTerminal ==
  /\ \A i \in CallsOf(MinimizeOps) :
       calls[i].ok => \A c \in comments : c.id = calls[i].id => c.isMinimized
  /\ \A i \in CallsOf(DeleteOps) :
       calls[i].ok =>
         \A j \in CallsOf(DeleteOps \cup MinimizeOps) :
           i < j => calls[j].id # calls[i].id
\* the comment that triggered the reply flow
TriggerComment == CHOOSE c \in before : c.type = "review" /\ c.id = trigger

(***************************************************************************)
(* C19. When fetching the comment thread fails, the run goes on: the       *)
(* thread is the triggering comment alone (its author, isBot false),       *)
(* generateReply is called with exactly that one message, and a finished   *)
(* run has posted the reply under the triggering comment.                  *)
(***************************************************************************)
C19_ThreadFailureFallsBack ==
  \A i \in CallsOf({"getCommentThread"}) :
    ~calls[i].ok =>
      /\ threadComments =
           << [author |-> TriggerComment.login, body |-> TriggerComment.body,
               isBot |-> FALSE] >>
      /\ i = Len(calls) => ~failed /\ pc = "replyPost"
      /\ \A j \in CallsOf({"openai.chat.completions.reply"}) :
           calls[j].comments = threadComments
      /\ pc = "done" =>
           /\ \E j \in CallsOf({"openai.chat.completions.reply"}) : calls[j].ok
           /\ \E k \in CallsOf({"pulls.createReplyForReviewComment"}) :
                calls[k].ok /\ calls[k].id = trigger
           /\ \E c \in comments \ before :
                c.type = "review" /\ c.login = BotLogin /\ c.inReplyTo # 0

C19_Witness ==
  /\ pc = "done"
  /\ trigger = 5
  /\ Len(getCommentThread(before, trigger)) = 2
  /\ Len(threadComments) = 1
  /\ \E i \in CallsOf({"getCommentThread"}) : ~calls[i].ok
  /\ \E k \in CallsOf({"pulls.createReplyForReviewComment"}) : calls[k].ok
\* the events the action reacts to
IsTrigger(e) ==
  \/ e.name = "pull_request" /\ e.action \in {"opened", "synchronize"}
  \/ /\ e.name = "issue_comment"
     /\ e.action = "created"
     /\ e.isPullRequest
     /\ startsWith(trim(e.body), ReviewCommand)
  \/ /\ e.name = "pull_request_review_comment"
     /\ e.action = "created"
     /\ \E c \in before :
          c.type = "review" /\ c.id = e.commentId /\ c.login # BotLogin

\* what follows "/review" in the trimmed body, trimmed
RestOfBody(body) ==
  trim(SubSeq(trim(body), Len(ReviewCommand) + 1, Len(trim(body))))

(***************************************************************************)
(* C20. A run makes platform calls only for a pull_request event opened or *)
(* synchronize, an issue_comment event created on a pull request whose     *)
(* trimmed body starts with /review, and a pull_request_review_comment     *)
(* event created by another user than the bot; for every other event it    *)
(* returns with no call made and no comment changed.  For a trigger it     *)
(* goes on to its first call, and the instructions of a /review comment    *)
(* are the trimmed rest of its body.                                       *)
(***************************************************************************)
C20_OnlyTriggersAct ==
  /\ ~IsTrigger(event) =>
       /\ calls = <<>>
       /\ comments = before
       /\ ~failed
       /\ pc \in {"start", "done"}
  /\ IsTrigger(event) /\ pc # "start" => calls # <<>> \/ pc # "done"
  /\ IsTrigger(event) /\ pc \in {"done", "failed"} => calls # <<>>
  /\ event.name = "issue_comment" /\ IsTrigger(event) /\ pc # "start" =>
       customInstructions = RestOfBody(event.body)
  /\ event.name # "issue_comment" => customInstructions = <<>>

C20_Witness ==
  /\ pc = "done"
  /\ event.name = "issue_comment"
  /\ event.body # trim(event.body)
  /\ customInstructions = <<"g", "o">>
  /\ Reviewed

(***************************************************************************)
(* Review-comment events one after another: each comment a run posts       *)
(* raises its own pull_request_review_comment event, and users go on       *)
(* replying                                                                *)
(***************************************************************************)
\* most review comments users add after the first event
MaxReplies == 2

\* run() starts again for the event e
BeginRun(e) ==
  /\ pc' = "start"
  /\ event' = e
  /\ customInstructions' = <<>>
  /\ filesToReview' = <<>>
  /\ existingComments' = <<>>
  /\ existingInlineKeys' = {}
  /\ review' = NoReview
  /\ calls' = <<>>
  /\ failed' = FALSE
  /\ outputs' = NoOutputs
  /\ trigger' = 0
  /\ threadComments' = <<>>

\* the platform delivers the created event of a review comment the finished
\* run posted
PostedCommentEvent ==
  /\ pc \in {"done", "failed"}
  /\ nextId <= MaxId(ReviewedBefore) + 2 * MaxReplies + 2
  /\ \E c \in comments \ before :
       /\ c.type = "review"
       /\ BeginRun(Event("pull_request_review_comment", "created", <<>>,
                         FALSE, c.id))
  /\ before' = comments
  /\ UNCHANGED <<variant, config, diff, comments, nextId, postedSummaries,
                 other, sevVars>>

UserReviewComments ==
  {c \in comments : c.type = "review" /\ c.login = UserLogin}

\* a user adds a review comment, a new thread or a reply in a thread, and
\* the platform delivers its created event
UserCommentEvent ==
  /\ pc \in {"done", "failed"}
  /\ Cardinality(UserReviewComments)
       < Cardinality({c \in ReviewedBefore :
                        c.type = "review" /\ c.login = UserLogin}) + MaxReplies
  /\ \E root \in {0} \cup {c.id : c \in {d \in comments :
                                           d.type = "review" /\ d.inReplyTo = 0}} :
       LET new == ReviewComment(nextId, UserLogin, PlainText, "a.ts", 1, TRUE,
                                root)
       IN /\ comments' = comments \cup {new}
          /\ before' = comments \cup {new}
          /\ nextId' = nextId + 1
          /\ BeginRun(Event("pull_request_review_comment", "created", <<>>,
                            FALSE, new.id))
  /\ UNCHANGED <<variant, config, diff, postedSummaries, other, sevVars>>

ReplyInit ==
  /\ Init
  /\ variant = "main"
  /\ config = getConfig(<<>>, FALSE)
  /\ comments = ReviewedBefore
  /\ event.name = "pull_request_review_comment"

ReplyNext ==
  \/ ReviewCommentEvent
  \/ FetchReplyContext
  \/ PostReply
  \/ PostedCommentEvent
  \/ UserCommentEvent

ReplySpec == ReplyInit /\ [][ReplyNext]_vars

\* the review comment the event is about
EventComment ==
  CHOOSE c \in before : c.type = "review" /\ c.id = event.commentId

\* the replies the bot has posted in review threads
BotReplies ==
  {c \in comments : c.type = "review" /\ c.login = BotLogin /\ c.inReplyTo # 0}

(***************************************************************************)
(* C21. A run triggered by a review comment of github-actions[bot] makes   *)
(* no call (no AI call, no reply) and changes no comment; over every       *)
(* sequence of review-comment events the bot has posted at most one reply  *)
(* per review comment of a user, so no reply of the bot causes another.    *)
(***************************************************************************)
C21_BotCommentGetsNoReply ==
  /\ event.name = "pull_request_review_comment" /\ EventComment.login = BotLogin =>
       /\ calls = <<>>
       /\ comments = before
       /\ trigger = 0
       /\ pc \in {"start", "done"}
  /\ Cardinality(BotReplies) <= Cardinality(UserReviewComments)

C21_Witness ==
  /\ pc = "done"
  /\ event.action = "created"
  /\ EventComment \in BotReplies
  /\ EventComment \notin ReviewedBefore
  /\ calls = <<>>

\* the file name matches one of the configured ignore patterns
MatchesIgnorePattern(file) ==
  \E i \in DOMAIN config.ignorePatterns :
    <<config.ignorePatterns[i], file>> \in MinimatchTable

\* every changed file of the pull request matches an ignore pattern
AllIgnored == \A f \in DOMAIN diff : MatchesIgnorePattern(diff[f].to)

AIOps == {"openai.chat.completions", "openai.chat.completions.reply"}

(***************************************************************************)
(* C22 as stated. No inline comment is handed to createReview on a file    *)
(* that matches an ignore pattern; when every changed file matches one,    *)
(* no AI call and no delete or minimize call is made, no comment is        *)
(* removed, and at most one comment, the notice, is posted.                *)
(***************************************************************************)
C22_IgnoredFilesOnlyNotice ==
  /\ \A c \in HandedComments : ~MatchesIgnorePattern(c.path)
  /\ AllIgnored =>
       /\ CallsOf(AIOps) = {}
       /\ CallsOf(DeleteOps \cup MinimizeOps \cup {"pulls.getReviewComment"}) = {}
       /\ before \subseteq comments
       /\ Cardinality(CallsOf(MutationOps)) <= 1
       /\ Cardinality(comments \ before) <= 1

\* the run is a review run: the reply flow was not entered
ReviewRun == event.name # "pull_request_review_comment"

(***************************************************************************)
(* C22 amended. No inline comment is handed to createReview on a file that *)
(* matches an ignore pattern; when every changed file matches one, a       *)
(* review run makes no AI call and no delete or minimize call, removes no  *)
(* comment, and posts nothing but the acknowledgement of a /review command *)
(* (before the file listing) and one notice (after it); a finished review  *)
(* run has posted the notice.                                              *)
(***************************************************************************)
C22_IgnoredFilesAckAndNotice ==
  /\ \A c \in HandedComments : ~MatchesIgnorePattern(c.path)
  /\ AllIgnored /\ ReviewRun =>
       /\ CallsOf(AIOps) = {}
       /\ CallsOf(DeleteOps \cup MinimizeOps \cup {"pulls.getReviewComment"}) = {}
       /\ CallsOf(MutationOps) = CallsOf({"issues.createComment"})
       /\ before \subseteq comments
       /\ \A i \in CallsOf({"issues.createComment"}) :
            \/ i = 1 /\ event.name = "issue_comment"
            \/ i = Len(calls) /\ calls[i - 1].op = "pulls.listFiles"
       /\ Cardinality(comments \ before)
            = Cardinality({i \in CallsOf({"issues.createComment"}) : calls[i].ok})
       /\ pc = "done" /\ calls # <<>> =>
            calls[Len(calls)].op = "issues.createComment" /\ calls[Len(calls)].ok

C22_Witness ==
  /\ AllIgnored
  /\ pc = "done"
  /\ event.name = "issue_comment"
  /\ Len(calls) = 3
  /\ Cardinality(comments \ before) = 2
  /\ Len(filesToReview) = 0

\* the bot's inline findings that are live: on the pull request, with a
\* position in the current diff, not minimized; replies in a thread are not
\* findings
LiveFindings ==
  { c \in comments :
      /\ c.type = "review"
      /\ c.login = BotLogin
      /\ c.inReplyTo = 0
      /\ c.position
      /\ ~c.isMinimized }

(***************************************************************************)
(* C23. After a review run no two live inline findings of the bot are at   *)
(* the same (file, line).                                                  *)
(***************************************************************************)
C23_OneLiveFindingPerAnchor ==
  pc = "done" =>
    \A c, d \in LiveFindings :
      c.path = d.path /\ c.line = d.line => c.id = d.id

\* a proposal that passes the file filter and the severity filter
PassesFileAndSeverity(c) ==
  /\ c.file \in Range(filesToReview)
  /\ TierRank(c.severity) >= TierRank(config.minSeverity)

(***************************************************************************)
(* C24. The deduplication set holds only anchors of prior bot comments     *)
(* that are active findings; a proposal that passes the file and severity  *)
(* filters and whose anchor no active finding covers is handed to          *)
(* createReview by a finished run with inline comments enabled.            *)
(***************************************************************************)
C24_DedupSetIsActiveFindings ==
  /\ existingInlineKeys \subseteq ActiveFindingAnchors
  /\ Reviewed /\ pc = "done" /\ ~config.disableInline =>
       \A c \in Range(review.comments) :
         PassesFileAndSeverity(c)
           /\ <<c.file, c.line>> \notin ActiveFindingAnchors =>
           \E h \in HandedComments : h.path = c.file /\ h.line = c.line

\* the id of the root of the thread a review comment belongs to
RootId(c) == IF c.inReplyTo # 0 THEN c.inReplyTo ELSE c.id

\* the thread of the triggering comment has a comment written by the bot
ThreadHasBotComment ==
  \E d \in before :
    /\ d.type = "review"
    /\ RootId(d) = RootId(TriggerComment)
    /\ d.login = BotLogin

(***************************************************************************)
(* C25. The reply flow calls the AI for a reply, and posts a reply, only   *)
(* when the thread of the triggering review comment contains a comment of  *)
(* the bot.                                                                *)
(***************************************************************************)
C25_RepliesOnlyInBotThreads ==
  \A i \in CallsOf({"openai.chat.completions.reply",
                    "pulls.createReplyForReviewComment"}) :
    ThreadHasBotComment

(***************************************************************************)
(* C26. The previous summaries the AI review request is given are the      *)
(* bodies of the listed comments classified as summaries, in listing       *)
(* order.                                                                  *)
(***************************************************************************)
C26_PreviousSummariesGiven ==
  \A i \in CallsOf({"openai.chat.completions"}) :
    calls[i].ok =>
      calls[i].previousSummaries =
        [k \in DOMAIN SelectSeq(existingComments, LAMBDA c : c.isSummary) |->
           SelectSeq(existingComments, LAMBDA c : c.isSummary)[k].body]

(***************************************************************************)
(* C27. Listing the bot's comments after a run classifies every comment    *)
(* createReview posted as a summary as isSummary, and every other comment  *)
(* the run posted (acknowledgement, notice, inline finding, reply) as not  *)
(* a summary.                                                              *)
(***************************************************************************)
C27_SummaryMarkerRoundTrip ==
  \A listed \in {listBotComments(comments)} :
    \A i \in DOMAIN listed :
      /\ listed[i].id \in Range(postedSummaries) => listed[i].isSummary
      /\ listed[i].id \notin Range(postedSummaries)
           /\ listed[i].id \notin {c.id : c \in before} =>
           ~listed[i].isSummary

(***************************************************************************)
(* C28. Once the delete step is over, every failed review-comment delete   *)
(* of an id that is not in the cached listing is followed by an            *)
(* issue-comment delete of the same id.                                    *)
(***************************************************************************)
C28_UncachedDeleteFallsBack ==
  pc \in {"createReview", "done", "failed"} =>
    \A i \in CallsOf({"pulls.deleteReviewComment"}) :
      ~calls[i].ok /\ ~Found(existingComments, calls[i].id) =>
        \E j \in CallsOf({"issues.deleteComment"}) :
          j > i /\ calls[j].id = calls[i].id

\* the successful calls of the given kinds issued after the AI has answered
SucceededAfterReview(ops) ==
  { i \in CallsOf(ops) :
      /\ calls[i].ok
      /\ \E j \in CallsOf({"openai.chat.completions"}) : j < i }

\* the number of inline comments the run submitted in its review
SubmittedCount ==
  IF \E i \in CallsOf({"pulls.createReview"}) : calls[i].ok
  THEN Len(calls[CHOOSE i \in CallsOf({"pulls.createReview"}) : calls[i].ok].comments)
  ELSE 0

(***************************************************************************)
(* C29. The outputs of a finished review run are what happened:            *)
(* comments_count is the number of inline comments submitted in the        *)
(* review, minimized_comments_count the number of comments minimized, and  *)
(* deleted_comments_count the number of comments deleted at the AI's       *)
(* request.                                                                *)
(***************************************************************************)
C29_OutputsAreActualCounts ==
  Reviewed /\ pc = "done" =>
    /\ outputs.comments_count = SubmittedCount
    /\ outputs.minimized_comments_count =
         Cardinality(SucceededAfterReview(MinimizeOps))
    /\ outputs.deleted_comments_count =
         Cardinality(SucceededAfterReview(DeleteOps))

(***************************************************************************)
(* Two review runs on the same pull request at the same time: the run of   *)
(* a synchronize event (the variables of run() above) and the run of a     *)
(* /review comment (the record other).  Each awaited call of either run is *)
(* one step; the platform answers every call of the second run, whose AI   *)
(* gives a plain summary and asks for no deletion and no minimization.     *)
(***************************************************************************)
firstRun ==
  <<pc, customInstructions, filesToReview, existingComments,
    existingInlineKeys, review, calls, failed, outputs, before, trigger,
    threadComments>>

\* inline comments the AI of the second run may propose
OtherProposalLists == { <<>>, <<Proposal("a.ts", 3, Urgent)>> }

\* steps 1 to 3 of the second run: the acknowledgement comment, the changed
\* files without the ignored ones, the diff
OtherStart ==
  /\ other.pc = "start"
  /\ LET changedFiles == [i \in DOMAIN diff |-> diff[i].to]
         kept == SelectSeq(changedFiles,
                   LAMBDA f : ~isFileIgnored(f, config.ignorePatterns))
     IN other' = [other EXCEPT !.pc = "listBotComments",
                               !.filesToReview = kept]
  /\ comments' = comments \cup {IssueComment(nextId, BotLogin, AckBody)}
  /\ nextId' = nextId + 1
  /\ UNCHANGED <<variant, event, config, diff, firstRun, postedSummaries,
                 sevVars>>

\* step 4 of the second run: the listing of the bot's comments
OtherListBotComments ==
  /\ other.pc = "listBotComments"
  /\ other' = [other EXCEPT
                 !.pc = "deletePreviousSummaries",
                 !.existingInlineKeys =
                    IF variant = "dedup"
                    THEN InlineKeys(listBotComments(comments)) ELSE {}]
  /\ UNCHANGED <<variant, event, config, diff, comments, nextId, firstRun,
                 postedSummaries, sevVars>>

\* step 4 of the second run: deletePreviousSummaries, on its own listing
OtherDeletePreviousSummaries ==
  /\ other.pc = "deletePreviousSummaries"
  /\ LET ups == [i \in 1..Len(listBotComments(comments)) |-> TRUE]
         st == deletePreviousSummaries([cs |-> comments, log |-> <<>>], ups)
     IN comments' = st.cs
  /\ other' = [other EXCEPT !.pc = "getReview"]
  /\ UNCHANGED <<variant, event, config, diff, nextId, firstRun,
                 postedSummaries, sevVars>>

\* step 5 of the second run: the AI review
OtherGetReview ==
  /\ other.pc = "getReview"
  /\ \E proposals \in OtherProposalLists :
       other' = [other EXCEPT
                  !.pc = "createReview",
                  !.review = getReview(PlainText, proposals, <<>>, <<>>)]
  /\ UNCHANGED <<variant, event, config, diff, comments, nextId, firstRun,
                 postedSummaries, sevVars>>

\* step 8 of the second run: the summary comment, then the inline comments
OtherCreateReview ==
  /\ other.pc = "createReview"
  /\ LET final == FinalComments(variant, other.review, other.filesToReview,
                                config.minSeverity, other.existingInlineKeys)
         given == CommentsArgument(config, formattedComments(final))
         withSummary ==
           comments \cup
             {IssueComment(nextId, BotLogin, formatSummary(other.review.summary))}
     IN /\ comments' =
             IF Len(given) > 0 /\ PlatformAccepts(given, diff)
             THEN withSummary \cup NewReviewComments(given, nextId + 1)
             ELSE withSummary
        /\ nextId' =
             IF Len(given) > 0 /\ PlatformAccepts(given, diff)
             THEN nextId + 1 + Len(given) ELSE nextId + 1
  /\ postedSummaries' = Append(postedSummaries, nextId)
  /\ other' = [other EXCEPT !.pc = "done"]
  /\ UNCHANGED <<variant, event, config, diff, firstRun, sevVars>>

ConcurrentInit ==
  /\ RunInit
  /\ variant = "dedup"
  /\ config = getConfig(<<>>, FALSE)
  /\ comments = ReviewedBefore
  /\ event = Event("pull_request", "synchronize", <<>>, FALSE, 0)
  /\ other = [NoOther EXCEPT !.pc = "start"]
  /\ sevIn = <<>>
  /\ sevOut = NoSev
  /\ processed = NotProcessed

ConcurrentNext ==
  \/ PullRequestEvent
  \/ GetChangedFiles
  \/ GetPullRequestDiff
  \/ ListBotComments
  \/ DeletePreviousSummaries
  \/ GetReview
  \/ MinimizeComments
  \/ DeleteComments
  \/ CreateReview
  \/ OtherStart
  \/ OtherListBotComments
  \/ OtherDeletePreviousSummaries
  \/ OtherGetReview
  \/ OtherCreateReview

ConcurrentSpec == ConcurrentInit /\ [][ConcurrentNext]_vars

\* the comments on the pull request that the listing classifies as summaries
ListedSummaries ==
  {c \in comments :
     c.type = "issue" /\ c.login = BotLogin /\ IsSummaryBody(c.body)}

(***************************************************************************)
(* C30. When two review runs on the same pull request overlap and both     *)
(* have completed with every call answered, at most one summary comment of *)
(* the bot is on the pull request, and no two live inline findings of the  *)
(* bot are at the same (file, line).                                       *)
(***************************************************************************)
C30_OverlappingRunsConverge ==
  /\ pc = "done"
  /\ other.pc = "done"
  /\ \A i \in DOMAIN calls : calls[i].ok
  =>
  /\ Cardinality(ListedSummaries) <= 1
  /\ \A c, d \in LiveFindings :
       c.path = d.path /\ c.line = d.line => c.id = d.id
====
